---- MODULE Spec2Model ----
(***************************************************************************)
(* Model of read/pe/delay_load_import.rs: DelayLoadImportTable (the import *)
(* table handle over one section buffer) and DelayLoadDescriptorIterator.  *)
(*                                                                         *)
(* A byte slice (Bytes<'data>) is a window [lo, hi) of the section buffer, *)
(* offsets counted from 0.  Every operation returns a result record        *)
(*   [kind, msg, val, reads]                                               *)
(* kind "ok" | "err" (an abort would be "panic"; no method produces one),   *)
(* msg the read_error text, val the value, reads the set of buffer indices *)
(* the operation looked at.                                                *)
(***************************************************************************)
EXTENDS Integers, Sequences, FiniteSets, TLC

\* ---------------------------------------------------------------- bounds
\* Width of an address in bits.  The program's addresses are u32; the model
\* keeps the modular arithmetic and scales the width.
AddrBits == 3
\* Longest section buffer.
MaxLen == 4
\* Largest byte value in a buffer (0 is the terminator / null byte).
MaxByte == 1
\* size_of::<pe::ImageDelayloadDescriptor>(), scaled (the PE record is
\* eight 32-bit fields).
DescSize == 2
\* Calls of next() followed on one iterator.
MaxCalls == 3

\* size_of::<U16Bytes<LE>>()
HintSize == 2

AddrMod == 2 ^ AddrBits
Addr == 0 .. (AddrMod - 1)
Byte == 0 .. MaxByte
Iters == {1, 2}

\* ------------------------------------------------------ result records
NoVal == [t |-> "unit"]
Ok(v, rd) == [kind |-> "ok", msg |-> "", val |-> v, reads |-> rd]
Err(m, rd) == [kind |-> "err", msg |-> m, val |-> NoVal, reads |-> rd]

\* ------------------------------------------- Bytes (read/util.rs) primitives
\* Bytes(section_data): the whole buffer.
BytesOf(buf) == [lo |-> 0, hi |-> Len(buf)]
\* &[]: what a failed read leaves in the cursor.
Emptied(d) == [lo |-> d.hi, hi |-> d.hi]
\* Content of a window, as a sequence.
Slice(buf, lo, hi) == SubSeq(buf, lo + 1, hi)

\* Bytes::skip(offset): drop `offset` bytes; fails when offset > len.
skip(d, offset) ==
  IF offset <= d.hi - d.lo
    THEN [ok |-> TRUE, data |-> [lo |-> d.lo + offset, hi |-> d.hi]]
    ELSE [ok |-> FALSE, data |-> Emptied(d)]

\* Bytes::read::<T>() for a T of `size` bytes: the next `size` bytes, or a
\* failure when fewer remain.
read(buf, d, size) ==
  IF size <= d.hi - d.lo
    THEN [ok |-> TRUE, val |-> Slice(buf, d.lo, d.lo + size),
          data |-> [lo |-> d.lo + size, hi |-> d.hi],
          reads |-> d.lo .. (d.lo + size - 1)]
    ELSE [ok |-> FALSE, val |-> <<>>, data |-> Emptied(d), reads |-> {}]

\* memchr(0, data): scan forward from i for the first zero byte; d.hi when
\* there is none.
RECURSIVE memchr(_, _, _)
memchr(buf, i, hi) ==
  IF i >= hi THEN hi
  ELSE IF buf[i + 1] = 0 THEN i
  ELSE memchr(buf, i + 1, hi)

\* Bytes::read_string(): the bytes up to the first zero byte, which is
\* consumed and not returned; fails when there is no zero byte.
read_string(buf, d) ==
  LET null == memchr(buf, d.lo, d.hi)
  IN IF null < d.hi
       THEN [ok |-> TRUE, val |-> Slice(buf, d.lo, null),
             data |-> [lo |-> null + 1, hi |-> d.hi],
             reads |-> d.lo .. null]
       ELSE [ok |-> FALSE, val |-> <<>>, data |-> Emptied(d),
             reads |-> d.lo .. (d.hi - 1)]

\* Bytes::read_string_at(offset): skip, then read_string.
read_string_at(buf, d, offset) ==
  LET s == skip(d, offset)
  IN IF s.ok THEN read_string(buf, s.data)
     ELSE [ok |-> FALSE, val |-> <<>>, data |-> s.data, reads |-> {}]

\* U16Bytes<LE>::get(LE) of two bytes.
U16LE(b) == b[1] + 256 * b[2]

\* pe::ImageDelayloadDescriptor::is_null(): every field is zero.
is_null(desc) == \A k \in 1 .. Len(desc) : desc[k] = 0

\* ImageThunkData: a thunk is one word; its top bit is the ordinal tag.
Thunk == Addr
is_ordinal(thunk) == thunk >= AddrMod \div 2
ordinal(thunk) == thunk % (AddrMod \div 2)
address(thunk) == thunk % (AddrMod \div 2)

\* ---------------------------------------------------- DelayLoadImportTable
\* u32::saturating_sub: an address below the section clamps to offset 0.
saturating_sub(a, b) == IF a >= b THEN a - b ELSE 0

\* u32::wrapping_sub
wrapping_sub(a, b) == (a - b) % AddrMod

\* DelayLoadImportTable::new
new(section_data, section_address, import_address) ==
  [section_data |-> section_data,
   section_address |-> section_address,
   import_address |-> import_address]

descriptors(self) ==
  LET offset == wrapping_sub(self.import_address, self.section_address)
      s == skip(BytesOf(self.section_data), offset)
  IN IF ~s.ok
       THEN Err("Invalid PE delay-load import descriptor address", {})
       ELSE Ok([t |-> "iter", data |-> s.data], {})

\* name() slicing the buffer at the offset without a bounds check
\* (&section_data[offset..]), which aborts when the offset is past the end.
name_unchecked_index(self, addr) ==
  LET offset == wrapping_sub(addr, self.section_address)
      r == read_string(self.section_data,
                       [lo |-> offset, hi |-> Len(self.section_data)])
  IN IF offset > Len(self.section_data)
       THEN [kind |-> "panic", msg |-> "", val |-> NoVal, reads |-> {}]
     ELSE IF ~r.ok THEN Err("Invalid PE import descriptor name", r.reads)
     ELSE Ok([t |-> "name", bytes |-> r.val], r.reads)

name(self, addr) ==
  LET r == read_string_at(self.section_data, BytesOf(self.section_data),
                          wrapping_sub(addr, self.section_address))
  IN IF ~r.ok
       THEN Err("Invalid PE import descriptor name", r.reads)
       ELSE Ok([t |-> "name", bytes |-> r.val], r.reads)

thunks(self, addr) ==
  LET offset == wrapping_sub(addr, self.section_address)
      s == skip(BytesOf(self.section_data), offset)
  IN IF ~s.ok
       THEN Err("Invalid PE delay load import thunk table address", {})
       ELSE Ok([t |-> "thunks", data |-> s.data], {})

\* hint_name() decoding the hint big-endian.
hint_name_big_endian(self, addr) ==
  LET offset == wrapping_sub(addr, self.section_address)
      s == skip(BytesOf(self.section_data), offset)
      h == read(self.section_data, s.data, HintSize)
      n == read_string(self.section_data, h.data)
  IN IF ~s.ok
       THEN Err("Invalid PE delay load import thunk address", {})
     ELSE IF ~h.ok
       THEN Err("Missing PE delay load import thunk hint", h.reads)
     ELSE IF ~n.ok
       THEN Err("Missing PE delay load import thunk name",
                h.reads \cup n.reads)
     ELSE Ok([t |-> "hint_name", hint |-> 256 * h.val[1] + h.val[2],
              name |-> n.val], h.reads \cup n.reads)

\* hint_name() reporting every failure as the addressing error.
hint_name_one_error(self, addr) ==
  LET offset == wrapping_sub(addr, self.section_address)
      s == skip(BytesOf(self.section_data), offset)
      h == read(self.section_data, s.data, HintSize)
      n == read_string(self.section_data, h.data)
  IN IF ~s.ok
       THEN Err("Invalid PE delay load import thunk address", {})
     ELSE IF ~h.ok
       THEN Err("Invalid PE delay load import thunk address", h.reads)
     ELSE IF ~n.ok
       THEN Err("Invalid PE delay load import thunk address",
                h.reads \cup n.reads)
     ELSE Ok([t |-> "hint_name", hint |-> U16LE(h.val), name |-> n.val],
             h.reads \cup n.reads)

hint_name(self, addr) ==
  LET offset == wrapping_sub(addr, self.section_address)
      s == skip(BytesOf(self.section_data), offset)
      h == read(self.section_data, s.data, HintSize)
      n == read_string(self.section_data, h.data)
  IN IF ~s.ok
       THEN Err("Invalid PE delay load import thunk address", {})
     ELSE IF ~h.ok
       THEN Err("Missing PE delay load import thunk hint", h.reads)
     ELSE IF ~n.ok
       THEN Err("Missing PE delay load import thunk name",
                h.reads \cup n.reads)
     ELSE Ok([t |-> "hint_name", hint |-> U16LE(h.val), name |-> n.val],
             h.reads \cup n.reads)

\* import() without the is_ordinal() branch: every thunk is read as a name.
import_always_name(self, thunk) ==
  LET r == hint_name(self, address(thunk))
  IN IF r.kind = "ok"
       THEN Ok([t |-> "Name", hint |-> r.val.hint, name |-> r.val.name],
               r.reads)
       ELSE r

import(self, thunk) ==
  IF is_ordinal(thunk)
    THEN Ok([t |-> "Ordinal", ordinal |-> ordinal(thunk)], {})
    ELSE LET r == hint_name(self, address(thunk))
         IN IF r.kind = "ok"
              THEN Ok([t |-> "Name", hint |-> r.val.hint,
                       name |-> r.val.name], r.reads)
              ELSE r

\* ----------------------------------------------- DelayLoadDescriptorIterator
\* next() without the is_null() test: every record read is returned.
next_no_null_test(buf, data) ==
  LET r == read(buf, data, DescSize)
  IN [data |-> r.data,
      res |-> IF ~r.ok
                THEN Err("Missing PE null delay-load import descriptor",
                         r.reads)
                ELSE Ok([t |-> "Some", desc |-> r.val], r.reads)]

\* next() taking a failed read for the end of the table.
next_eof_is_end(buf, data) ==
  LET r == read(buf, data, DescSize)
  IN [data |-> r.data,
      res |-> IF ~r.ok \/ is_null(r.val)
                THEN Ok([t |-> "None"], r.reads)
                ELSE Ok([t |-> "Some", desc |-> r.val], r.reads)]

\* next() leaving the cursor on a null record instead of stepping past it.
next_stay_at_null(buf, data) ==
  LET r == read(buf, data, DescSize)
  IN IF r.ok /\ is_null(r.val)
       THEN [data |-> data, res |-> Ok([t |-> "None"], r.reads)]
       ELSE [data |-> r.data,
             res |-> IF ~r.ok
                       THEN Err("Missing PE null delay-load import descriptor",
                                r.reads)
                       ELSE Ok([t |-> "Some", desc |-> r.val], r.reads)]

\* next() on a cursor `data`: the result, and the cursor it leaves.
next(buf, data) ==
  LET r == read(buf, data, DescSize)
  IN [data |-> r.data,
      res |-> IF ~r.ok
                THEN Err("Missing PE null delay-load import descriptor",
                         r.reads)
              ELSE IF is_null(r.val)
                THEN Ok([t |-> "None"], r.reads)
              ELSE Ok([t |-> "Some", desc |-> r.val], r.reads)]

\* ------------------------------------------------------------------ state
\* section_data, section_address, import_address: the fields of the handle.
\* it[i]: the descriptor iterator a caller holds in slot i: whether it was
\*   created, its cursor `data`, and the number of next() calls made on it.
\* last: the latest call: the method, its argument (an address, a thunk or
\*   the iterator slot), the iterator's cursor before a next(), the result.
VARIABLES section_data, section_address, import_address, it, last

vars == <<section_data, section_address, import_address, it, last>>
handle == <<section_data, section_address, import_address>>

\* The import table handle as the methods see it.
Self == new(section_data, section_address, import_address)

NoData == [lo |-> 0, hi |-> 0]
NoIter == [live |-> FALSE, data |-> NoData, calls |-> 0]

\* All byte sequences of length at most n.
RECURSIVE Buffers(_)
Buffers(n) ==
  IF n = 0 THEN {<<>>}
  ELSE LET shorter == Buffers(n - 1)
       IN shorter \cup
          {Append(b, x) : b \in {s \in shorter : Len(s) = n - 1}, x \in Byte}

Init ==
  /\ section_data \in Buffers(MaxLen)
  /\ section_address \in Addr
  /\ import_address \in Addr
  /\ it = [i \in Iters |-> NoIter]
  /\ last = [op |-> "new", arg |-> 0, pre |-> NoData, res |-> Ok(NoVal, {})]

\* let iter = table.descriptors() into slot i; a slot holds one iterator for
\* its whole life, a fresh iterator goes into a fresh slot.
Descriptors(i) ==
  /\ ~it[i].live
  /\ LET r == descriptors(Self)
     IN /\ last' = [op |-> "descriptors", arg |-> i, pre |-> NoData, res |-> r]
        /\ it' = IF r.kind = "ok"
                   THEN [it EXCEPT ![i] = [live |-> TRUE, data |-> r.val.data,
                                           calls |-> 0]]
                   ELSE it
  /\ UNCHANGED handle

\* next() on a cursor kept in one place for every iterator of the handle:
\* a call moves all of them.
Next_shared_cursor(i) ==
  /\ it[i].live
  /\ it[i].calls < MaxCalls
  /\ LET r == next(section_data, it[i].data)
     IN /\ last' = [op |-> "next", arg |-> i, pre |-> it[i].data, res |-> r.res]
        /\ it' = [j \in Iters |->
                   IF it[j].live
                     THEN [live |-> TRUE, data |-> r.data,
                           calls |-> IF j = i THEN it[j].calls + 1
                                     ELSE it[j].calls]
                     ELSE it[j]]
  /\ UNCHANGED handle

\* iter.next() on the iterator in slot i.
Next_(i) ==
  /\ it[i].live
  /\ it[i].calls < MaxCalls
  /\ LET r == next(section_data, it[i].data)
     IN /\ last' = [op |-> "next", arg |-> i, pre |-> it[i].data, res |-> r.res]
        /\ it' = [it EXCEPT ![i] = [live |-> TRUE, data |-> r.data,
                                    calls |-> it[i].calls + 1]]
  /\ UNCHANGED handle

\* name() reading through the handle's own section_data instead of a copy:
\* the handle keeps what the read left.
NameCall_consuming ==
  \E a \in Addr :
    LET r == read_string_at(section_data, BytesOf(section_data),
                            wrapping_sub(a, section_address))
    IN /\ last' = [op |-> "name", arg |-> a, pre |-> NoData,
                   res |-> name(Self, a)]
       /\ section_data' = Slice(section_data, r.data.lo, r.data.hi)
       /\ UNCHANGED <<section_address, import_address, it>>

NameCall ==
  \E a \in Addr :
    /\ last' = [op |-> "name", arg |-> a, pre |-> NoData, res |-> name(Self, a)]
    /\ UNCHANGED <<handle, it>>

ThunksCall ==
  \E a \in Addr :
    /\ last' = [op |-> "thunks", arg |-> a, pre |-> NoData,
                res |-> thunks(Self, a)]
    /\ UNCHANGED <<handle, it>>

HintNameCall ==
  \E a \in Addr :
    /\ last' = [op |-> "hint_name", arg |-> a, pre |-> NoData,
                res |-> hint_name(Self, a)]
    /\ UNCHANGED <<handle, it>>

ImportCall ==
  \E thunk \in Thunk :
    /\ last' = [op |-> "import", arg |-> thunk, pre |-> NoData,
                res |-> import(Self, thunk)]
    /\ UNCHANGED <<handle, it>>

\* One caller: the handle's methods and one descriptor iterator.
Next ==
  \/ Descriptors(1)
  \/ Next_(1)
  \/ NameCall
  \/ ThunksCall
  \/ HintNameCall
  \/ ImportCall

Spec == Init /\ [][Next]_vars

\* Two descriptor iterators of one handle, their calls interleaved.
NextIter ==
  \/ \E i \in Iters : Descriptors(i)
  \/ \E i \in Iters : Next_(i)

SpecIter == Init /\ [][NextIter]_vars

\* ------------------------------------------------------------- properties
BufLen == Len(section_data)
InBuffer == 0 .. (BufLen - 1)
Remaining(d) == d.hi - d.lo
\* address - section_address modulo the address width, written out.
OffsetOf(a) ==
  IF a >= section_address THEN a - section_address
  ELSE a - section_address + AddrMod
\* A sequence of zero bytes only.
AllZero(b) == b = [k \in 1 .. Len(b) |-> 0]
\* The table of whole records counted from the import offset.
Start == OffsetOf(import_address)
NumRecords == IF Start <= BufLen THEN (BufLen - Start) \div DescSize ELSE 0
Record(k) ==
  Slice(section_data, Start + k * DescSize, Start + (k + 1) * DescSize)
HasNull == \E k \in 0 .. (NumRecords - 1) : AllZero(Record(k))
FirstNull ==
  CHOOSE k \in 0 .. (NumRecords - 1) :
    AllZero(Record(k)) /\ \A j \in 0 .. (k - 1) : ~AllZero(Record(j))
ValidInput == Start <= BufLen /\ HasNull
MissingNull == "Missing PE null delay-load import descriptor"
IsNone(r) == r.kind = "ok" /\ r.val.t = "None"
IsSome(r) == r.kind = "ok" /\ r.val.t = "Some"

\* C1: every operation reads only buffer indices 0 <= i < length of the
\* buffer and ends with a result or a parse error, never an abort.
C1_ReadsInBounds ==
  /\ last.res.kind \in {"ok", "err"}
  /\ last.res.reads \subseteq InBuffer

\* hint_name scanned up to the last byte of the buffer and reported an error.
C1_Witness ==
  /\ last.op = "hint_name"
  /\ last.res.kind = "err"
  /\ BufLen >= 3
  /\ (BufLen - 1) \in last.res.reads

\* C2: on a valid input (import offset in range, a null record among the
\* whole records counted from it) the calls of next() return the records
\* before the first null one in buffer order, one per call, then Ok(None)
\* at the first null record; Ok(None) is returned exactly when the record
\* just read is all zero; that takes at most NumRecords calls.
C2_RecordsThenNone ==
  /\ (last.op = "descriptors" /\ Start <= BufLen) => last.res.kind = "ok"
  /\ last.op = "next" =>
       /\ IsNone(last.res) <=>
            /\ Remaining(last.pre) >= DescSize
            /\ AllZero(Slice(section_data, last.pre.lo,
                             last.pre.lo + DescSize))
       /\ (ValidInput /\ it[last.arg].calls <= FirstNull + 1) =>
            LET k == it[last.arg].calls - 1
            IN /\ k < FirstNull =>
                    /\ IsSome(last.res)
                    /\ last.res.val.desc = Record(k)
               /\ k = FirstNull => IsNone(last.res)
               /\ FirstNull + 1 <= NumRecords

\* One record was returned and the next call ended the sequence.
C2_Witness ==
  /\ last.op = "next"
  /\ ValidInput
  /\ FirstNull = 1
  /\ it[last.arg].calls = 2
  /\ IsNone(last.res)

\* C3: with fewer bytes than one record left at the cursor (none included)
\* next() returns the missing-null-descriptor error, and a table without a
\* null record among its whole records never yields Ok(None).
C3_ExhaustedIsError ==
  last.op = "next" =>
    /\ Remaining(last.pre) < DescSize =>
         /\ last.res.kind = "err"
         /\ last.res.msg = MissingNull
    /\ ~HasNull => ~IsNone(last.res)

\* A record was returned, then the buffer ended without a null record.
C3_Witness ==
  /\ last.op = "next"
  /\ ~HasNull
  /\ it[last.arg].calls = 2
  /\ Remaining(last.pre) = 0
  /\ last.res.kind = "err"

\* The address an operation translated: the import address for
\* descriptors(), the argument otherwise.
Translated == IF last.op = "descriptors" THEN import_address ELSE last.arg
AddressOps == {"descriptors", "name", "thunks", "hint_name"}

C5_ImportByTag ==
  last.op = "import" =>
    IF is_ordinal(last.arg)
      THEN /\ last.res.kind = "ok"
           /\ last.res.val = [t |-> "Ordinal", ordinal |-> ordinal(last.arg)]
           /\ last.res.reads = {}
      ELSE LET h == hint_name(Self, address(last.arg))
           IN IF h.kind = "ok"
                THEN /\ last.res.kind = "ok"
                     /\ last.res.val = [t |-> "Name", hint |-> h.val.hint,
                                        name |-> h.val.name]
                ELSE last.res = h

\* An ordinal thunk resolved over an empty buffer, where reading a name at
\* the thunk's address bits fails.
C5_Witness ==
  /\ last.op = "import"
  /\ is_ordinal(last.arg)
  /\ BufLen = 0
  /\ hint_name(Self, address(last.arg)).kind = "err"
  /\ last.res.kind = "ok"

HasZeroFrom(o) == \E j \in o .. (BufLen - 1) : section_data[j + 1] = 0
\* Offset of the first zero byte at or after offset o.
FirstZeroFrom(o) ==
  CHOOSE j \in o .. (BufLen - 1) :
    /\ section_data[j + 1] = 0
    /\ \A k \in o .. (j - 1) : section_data[k + 1] # 0
\* b is the string of the buffer at offset o: the bytes up to the first
\* zero byte, none of them zero, a zero byte right after them.
IsStringAt(b, o) ==
  /\ HasZeroFrom(o)
  /\ b = Slice(section_data, o, FirstZeroFrom(o))
  /\ \A k \in 1 .. Len(b) : b[k] # 0
  /\ section_data[o + Len(b) + 1] = 0

\* C6: a successful name(address) is the bytes from the offset up to,
\* excluding, the first zero byte; a successful hint_name(address) is the
\* little-endian 16-bit value of the two bytes at the offset and the bytes
\* from offset + 2 up to, excluding, the first zero byte.
C6_NameBytes ==
  /\ (last.op = "name" /\ last.res.kind = "ok") =>
       IsStringAt(last.res.val.bytes, OffsetOf(last.arg))
  /\ (last.op = "hint_name" /\ last.res.kind = "ok") =>
       LET o == OffsetOf(last.arg)
       IN /\ o + 2 <= BufLen
          /\ last.res.val.hint = section_data[o + 1] + 256 * section_data[o + 2]
          /\ IsStringAt(last.res.val.name, o + 2)

\* hint_name read hint 1 (bytes 01 00) and a name of one byte.
C6_Witness ==
  /\ last.op = "hint_name"
  /\ last.res.kind = "ok"
  /\ last.res.val.hint = 1
  /\ Len(last.res.val.name) = 1

AddressError(op) ==
  CASE op = "descriptors" -> "Invalid PE delay-load import descriptor address"
    [] op = "thunks" -> "Invalid PE delay load import thunk table address"
    [] op = "hint_name" -> "Invalid PE delay load import thunk address"
MissingHint == "Missing PE delay load import thunk hint"
MissingName == "Missing PE delay load import thunk name"
IsErr(r, m) == r.kind = "err" /\ r.msg = m

\* C7: descriptors(), thunks() and hint_name() return their addressing
\* error exactly when the offset exceeds the buffer length (an offset equal
\* to it is accepted); hint_name on an offset in range fails with the
\* missing-hint error exactly when fewer than 2 bytes remain, and with the
\* missing-name error exactly when the hint is there and no zero byte
\* follows; a table cut off inside a record fails in next() with the
\* missing-null-descriptor error.
C7_DistinctErrors ==
  /\ last.op \in {"descriptors", "thunks", "hint_name"} =>
       (IsErr(last.res, AddressError(last.op))
          <=> OffsetOf(Translated) > BufLen)
  /\ last.op \in {"descriptors", "thunks"} =>
       (last.res.kind = "err" => last.res.msg = AddressError(last.op))
  /\ last.op = "hint_name" =>
       LET o == OffsetOf(last.arg)
       IN /\ IsErr(last.res, MissingHint)
               <=> (o <= BufLen /\ BufLen - o < HintSize)
          /\ IsErr(last.res, MissingName)
               <=> (o + HintSize <= BufLen /\ ~HasZeroFrom(o + HintSize))
  /\ (last.op = "next" /\ Remaining(last.pre) < DescSize) =>
       IsErr(last.res, MissingNull)

\* hint_name found its hint and no terminator after it.
C7_Witness ==
  /\ last.op = "hint_name"
  /\ OffsetOf(last.arg) + HintSize < BufLen
  /\ IsErr(last.res, MissingName)

\* The result of the handle method `op` on argument a, on the handle self.
CallOn(self, op, a) ==
  CASE op = "name" -> name(self, a)
    [] op = "hint_name" -> hint_name(self, a)
    [] op = "thunks" -> thunks(self, a)
    [] op = "import" -> import(self, a)
    [] op = "descriptors" -> descriptors(self)
HandleOps == {"name", "hint_name", "thunks", "import", "descriptors"}
\* The handle after a step.
SelfAfter == new(section_data', section_address', import_address')

\* C8: no operation changes the handle or the buffer: across every step,
\* whatever it called and whether it failed, name(a), hint_name(a) and
\* thunks(a) of the address at hand and descriptors() return after the step
\* what they returned before it, the call made in the step returns what it
\* would have returned before the step, and a call repeated right after
\* itself returns the same result.
C8_HandleUnchanged ==
  [][/\ handle' = handle
     /\ \A op \in {"name", "hint_name", "thunks", "descriptors"} :
          CallOn(SelfAfter, op, last'.arg) = CallOn(Self, op, last'.arg)
     /\ last'.op \in HandleOps =>
          last'.res = CallOn(Self, last'.op, last'.arg)
     /\ (/\ last.op \in HandleOps
         /\ last'.op = last.op
         /\ last'.arg = last.arg) => last'.res = last.res]_vars

\* After descriptors(), a next() and a failed name() the thunk list at the
\* section start and an iterator are still handed out.
C8_Witness ==
  /\ last.op = "name"
  /\ last.res.kind = "err"
  /\ BufLen > 0
  /\ it[1].live
  /\ it[1].calls > 0
  /\ thunks(Self, section_address).kind = "ok"
  /\ descriptors(Self).kind = "ok"

\* The n-th result of an iterator run alone from descriptors(), and the
\* cursor it leaves.
RECURSIVE Solo(_)
Solo(n) ==
  IF n = 0
    THEN [data |-> [lo |-> Start, hi |-> BufLen], res |-> descriptors(Self)]
    ELSE next(section_data, Solo(n - 1).data)

\* C9: two iterators of one handle are independent: under every
\* interleaving each returns what it would return run alone, a call on one
\* leaves the other where it was, a cursor only moves forward, and every
\* descriptors() hands out a cursor at import_address - section_address.
C9_IndependentIterators ==
  /\ [](/\ \A i \in Iters :
             it[i].live => it[i].data = Solo(it[i].calls).data
        /\ last.op = "next" => last.res = Solo(it[last.arg].calls).res
        /\ (last.op = "descriptors" /\ last.res.kind = "ok") =>
             /\ it[last.arg].calls = 0
             /\ it[last.arg].data = [lo |-> Start, hi |-> BufLen])
  /\ [][/\ \A i \in Iters :
             it[i].live =>
               /\ it'[i].live
               /\ it'[i].data.lo >= it[i].data.lo
               /\ it'[i].data.hi = it[i].data.hi
        /\ \A i \in Iters :
             (last'.op = "next" /\ last'.arg # i) => it'[i] = it[i]]_vars

\* Iterator 2 returned its first record while iterator 1 was two calls in.
C9_Witness ==
  /\ last.op = "next"
  /\ last.arg = 2
  /\ it[1].calls = 2
  /\ it[2].calls = 1
  /\ IsSome(last.res)
  /\ it[1].data.lo > it[2].data.lo

\* C10: next() steps past a null record too: the call after an Ok(None)
\* reads the record behind the null one and returns it as Some when it is
\* not null, Ok(None) when it is null again, and the
\* missing-null-descriptor error when less than a record is left.
C10_NotFused ==
  [][(/\ last.op = "next"
      /\ IsNone(last.res)
      /\ last'.op = "next"
      /\ last'.arg = last.arg) =>
       LET after == last.pre.lo + DescSize
           following == Slice(section_data, after, after + DescSize)
       IN /\ last'.pre = [lo |-> after, hi |-> BufLen]
          /\ IF after + DescSize > BufLen
               THEN IsErr(last'.res, MissingNull)
             ELSE IF AllZero(following)
               THEN IsNone(last'.res)
             ELSE IsSome(last'.res) /\ last'.res.val.desc = following]_vars

\* The first record was null and the second call returned the record
\* behind it.
C10_Witness ==
  /\ last.op = "next"
  /\ it[last.arg].calls = 2
  /\ NumRecords >= 2
  /\ AllZero(Record(0))
  /\ IsSome(last.res)

====
